---- MODULE Spec2Model ----
(***************************************************************************)
(* Wallet recovery search of src/untitled.py: the candidate generator      *)
(* (generate_mnemonics), the derivation path enumeration                   *)
(* (derive_addresses), the balance oracle (check_balance) and the mnemonic *)
(* search loop of main.  The parts of the source that are elided           *)
(* ("... rest of ...", "... existing code ...") are modelled from spec.md  *)
(* and are marked so where they are defined.                               *)
(***************************************************************************)
EXTENDS Integers, Sequences, FiniteSets, TLC

(* ------------------------------ bounds -------------------------------- *)
\* Largest number of '?' placeholders of an input phrase.
MaxPlaceholders == 1
\* Number of words of the wordlist (2048 in BIP39).
WordlistSize == 3

(* ------------------------- program constants -------------------------- *)
MAX_RETRIES == 3
\* range(20) of derive_addresses
NUM_INDICES == 20
\* the progress period of main: total_attempts % 100
PROGRESS_EVERY == 100
\* the practicality threshold of generate_mnemonics: missing_count > 5
WARN_MISSING == 5
\* the value of the final return statement of check_balance
EXHAUSTED_RETURN == 0

\* API_ENDPOINTS: each URL template with the marker substrings it contains
\* (the substrings check_balance tests the formatted URL for).
API_ENDPOINTS ==
    << [host |-> "blockchain.info/balance", marks |-> {"blockchain.info"}],
       [host |-> "api.blockcypher.com",     marks |-> {"blockcypher"}],
       [host |-> "chain.api.btc.com",       marks |-> {"btc.com"}] >>

NumEndpoints == Len(API_ENDPOINTS)

(* ------------------------------ helpers ------------------------------- *)
RECURSIVE Pow(_, _)
Pow(b, e) == IF e = 0 THEN 1 ELSE b * Pow(b, e - 1)

RECURSIVE SumUpTo(_, _)
SumUpTo(s, n) == IF n = 0 THEN 0 ELSE s[n] + SumUpTo(s, n - 1)

MinOf(S) == CHOOSE x \in S : \A y \in S : x <= y

(* ------------------------- candidate generator ------------------------ *)
\* A token is a word, given by its index 1..WordlistSize in the wordlist, or
\* the placeholder '?'.
Placeholder == 0
Wordlist == 1 .. WordlistSize

\* Mutant of LengthOK: a lower bound only, so 13 words pass the validation.
LengthOKAtLeast12(n) == n >= 12

\* Mutant of LengthOK: only the longest phrase passes the validation.
LengthOKOnly24(n) == n = 24

\* len(base_words) not in [12, 15, 18, 21, 24]
LengthOK(n) == n \in {12, 15, 18, 21, 24}

\* base_phrase.count('?')
MissingCount(words) == Cardinality({i \in 1 .. Len(words) : words[i] = Placeholder})

\* The number of placeholders at positions <= i: the rank, left to right, of
\* the placeholder at position i.
Rank(words, i) == Cardinality({j \in 1 .. i : words[j] = Placeholder})

\* The number of word assignments to the placeholders.
NumCombos(words) == Pow(WordlistSize, MissingCount(words))

\* Mutant of Fill: the leftmost placeholder varies fastest.
FillLeftFastest(words, n) ==
    [i \in 1 .. Len(words) |->
        IF words[i] = Placeholder
        THEN ((n \div Pow(WordlistSize, Rank(words, i) - 1)) % WordlistSize) + 1
        ELSE words[i]]

\* The n-th assignment (n = 0, 1, ...) of the Cartesian product over the
\* placeholders, taken left to right with words in wordlist order, the
\* rightmost placeholder varying fastest.
Fill(words, n) ==
    LET kk == MissingCount(words)
    IN  [i \in 1 .. Len(words) |->
            IF words[i] = Placeholder
            THEN ((n \div Pow(WordlistSize, kk - Rank(words, i))) % WordlistSize) + 1
            ELSE words[i]]

\* The checksum predicate on a full phrase.  BIP39 takes the checksum bits
\* of the last word from a hash of the entropy carried by the words before
\* it; here the hash is the parity of the sum of the preceding word indices.
ChecksumOK(c) == (SumUpTo(c, Len(c) - 1) % 2) = (c[Len(c)] % 2)

\* Mutant of ValidAfter: no checksum filter.
ValidAfterNoChecksum(words, n) == (n + 1) .. (NumCombos(words) - 1)

\* The assignments after n that pass the checksum filter.
ValidAfter(words, n) ==
    {m \in (n + 1) .. (NumCombos(words) - 1) : ChecksumOK(Fill(words, m))}

(* --------------------------- derivation paths ------------------------- *)
\* The four path templates at index i, as <<purpose, account, index>> of
\* m/purpose'/0'/account'/0/index.
Paths(i) ==
    << <<44, 0, i>>,
       <<49, 0, i>>,
       <<84, 0, i>>,
       <<44, i, 0>> >>

\* The paths in the order derive_addresses enumerates them.
AllPaths ==
    [p \in 1 .. (4 * NUM_INDICES) |-> Paths((p - 1) \div 4)[((p - 1) % 4) + 1]]

(* ------------------------------ the chain ----------------------------- *)
\* An address is identified by the candidate that produced it (its ordinal
\* in the enumeration) and its derivation path.
FundableSpots ==
    { <<1, <<84, 0, 7>> >>, <<2, <<49, 0, 0>> >> }

NoAddress == <<0, <<0, 0, 0>> >>

VARIABLES
    base_words,     \* the partial phrase, split into tokens
    funded,         \* the addresses that hold a positive balance on chain
    mode,           \* the balance source: "api", "local" (--local-node), "offline" (--offline)
    deriveLog,      \* outcome of the last derive_addresses call: "none", "ok", "DerivationError"
    pc,             \* position of main's mnemonic search
    genState,       \* generate_mnemonics: "unstarted", "running", "finished"
    genIdx,         \* index of the assignment last yielded, -1 before the first
    pulled,         \* the number of candidates the generator has yielded
    mnemonic,       \* the candidate of the current loop iteration
    addrs,          \* the addresses derived for the current candidate
    k,              \* index into addrs of the address being checked
    attempt,        \* check_balance: the outer loop variable
    ep,             \* check_balance: index of the endpoint of the inner loop
    reqLog,         \* check_balance: <<attempt, endpoint>> of each request of this call
    delays,         \* check_balance: the backoff sleeps of this call, in seconds
    sleptAfter,     \* check_balance: the requests of this call a backoff sleep followed
    ret,            \* check_balance: the returned value
    exit,           \* check_balance: the return statement taken
    answeredBy,     \* check_balance: endpoint whose response was returned, 0 if none
    total_attempts, \* main: total_attempts
    progress,       \* main: the values of total_attempts that were logged
    paused,         \* a REQUEST_DELAY sleep happened since the last balance check
    warned,         \* the "more than 5 missing words" warning was logged
    lengthError,    \* the "Invalid mnemonic length" error was logged
    result,         \* outcome of the search: "none", "found", "exhausted"
    found,          \* what a successful search reports
    undetermined,   \* some check_balance of this search ran out of retries
    everDerived,    \* derive_addresses was called
    everRequested   \* a provider request was issued

vars == << base_words, funded, mode, deriveLog, pc, genState, genIdx, pulled,
           mnemonic, addrs, k, attempt, ep, reqLog, delays, sleptAfter, ret,
           exit, answeredBy, total_attempts,
           progress, paused, warned, lengthError, result, found, undetermined,
           everDerived, everRequested >>

genVars   == << genState, genIdx, pulled, mnemonic, warned, lengthError >>
callVars  == << attempt, ep, reqLog, delays, sleptAfter, ret, exit, answeredBy >>
mainVars  == << total_attempts, progress, paused >>
ghostVars == << undetermined, everDerived, everRequested >>

ChainBalance(address) == IF address \in funded THEN 500 + address[1] ELSE 0
\* total_received of the address: another number of a provider's response
ChainReceived(address) == ChainBalance(address) + 1000

(* --------------------------- provider responses ----------------------- *)
\* A JSON body in one of the three wire shapes:
\*   "keyed"  {key: {"final_balance": bal, "total_received": other}}
\*   "flat"   {"final_balance": bal, "total_received": other}
\*   "nested" {"data": {"confirmed": bal, "received": other}}
NoBody == [shape |-> "none", key |-> NoAddress, bal |-> 0, other |-> 0]

Bodies(address) ==
    { [shape |-> s, key |-> ky, bal |-> ChainBalance(address),
       other |-> ChainReceived(address)] :
          s \in {"keyed", "flat", "nested"}, ky \in {address, NoAddress} }

\* What one requests.get can bring: a transport failure (timeout, refused
\* connection), an HTTP error status, or a 2xx response with a JSON body.
Responses(address) ==
    { [kind |-> "transport", body |-> NoBody],
      [kind |-> "http_error", body |-> NoBody] }
    \cup { [kind |-> "ok", body |-> b] : b \in Bodies(address) }

Raise == [tag |-> "raise", value |-> 0]
Return(v) == [tag |-> "return", value |-> v]
FallThrough == [tag |-> "fallthrough", value |-> 0]

\* Mutant of ParseBlockchainInfo: reads the other number of the entry.
ParseBlockchainInfoReceived(address, body) ==
    IF body.shape = "keyed" /\ body.key = address THEN Return(body.other) ELSE Raise

\* response.json()[address]['final_balance']
ParseBlockchainInfo(address, body) ==
    IF body.shape = "keyed" /\ body.key = address THEN Return(body.bal) ELSE Raise

\* response.json()['final_balance']
ParseBlockcypher(address, body) ==
    IF body.shape = "flat" THEN Return(body.bal) ELSE Raise

\* Mutant of ParseBtcCom: reads data.received instead of data.confirmed.
ParseBtcComReceived(address, body) ==
    IF body.shape = "nested" THEN Return(body.other) ELSE Raise

\* response.json()['data']['confirmed']
ParseBtcCom(address, body) ==
    IF body.shape = "nested" THEN Return(body.bal) ELSE Raise

\* The if/elif chain on the URL.
ParseResponse(url, address, body) ==
    IF "blockchain.info" \in url.marks THEN ParseBlockchainInfo(address, body)
    ELSE IF "blockcypher" \in url.marks THEN ParseBlockcypher(address, body)
    ELSE IF "btc.com" \in url.marks THEN ParseBtcCom(address, body)
    ELSE FallThrough

\* The body of the try block for one endpoint.
TryEndpoint(url, address, resp) ==
    IF resp.kind = "transport" THEN Raise            \* requests.get raises
    ELSE IF resp.kind = "http_error" THEN Raise      \* raise_for_status raises
    ELSE ParseResponse(url, address, resp.body)

\* time.sleep(2 ** attempt)
Backoff(a) == Pow(2, a)

\* Mutant of NextIteration: a failure leaves the inner loop (break), so the
\* rest of the pass is skipped.
NextIterationBreak(a, e) ==
    IF a + 1 < MAX_RETRIES THEN [attempt |-> a + 1, ep |-> 1, over |-> FALSE]
    ELSE [attempt |-> a, ep |-> e, over |-> TRUE]

\* Mutant of NextIteration: one pass too many (range(MAX_RETRIES + 1)).
NextIterationExtraPass(a, e) ==
    IF e < NumEndpoints THEN [attempt |-> a, ep |-> e + 1, over |-> FALSE]
    ELSE IF a + 1 < MAX_RETRIES + 1 THEN [attempt |-> a + 1, ep |-> 1, over |-> FALSE]
    ELSE [attempt |-> a, ep |-> e, over |-> TRUE]

\* The two nested for loops: the position after the iteration (a, e).
NextIteration(a, e) ==
    IF e < NumEndpoints THEN [attempt |-> a, ep |-> e + 1, over |-> FALSE]
    ELSE IF a + 1 < MAX_RETRIES THEN [attempt |-> a + 1, ep |-> 1, over |-> FALSE]
    ELSE [attempt |-> a, ep |-> e, over |-> TRUE]


(* ------------------------------- inputs ------------------------------- *)
\* Phrase lengths of the inputs: a valid BIP39 length and two that are not.
PhraseLengths == {11, 12, 13}

\* The positions of a phrase of length n that may hold a placeholder.
Slots(n) == {7, n}

\* The partial phrase of length n with placeholders at the positions S.
Phrase(n, S) ==
    [i \in 1 .. n |-> IF i \in S THEN Placeholder ELSE (i % WordlistSize) + 1]

InputPhrases ==
    UNION { { Phrase(n, S) : S \in {T \in SUBSET Slots(n) : Cardinality(T) <= MaxPlaceholders} } :
            n \in PhraseLengths }

\* The phrases of the generation-only runs: every valid length and some
\* invalid ones, with one placeholder more than the searches, and one phrase
\* whose enumeration is long enough for the progress report of main.
OfflineLengths == {11, 12, 15, 18, 21, 24, 25}
OfflineSlots(n) == {1, 7, n - 1, n}
LongPhrase == Phrase(12, {2, 4, 6, 8, 10})
OfflinePhrases ==
    UNION { { Phrase(n, S) :
                S \in {T \in SUBSET OfflineSlots(n) : Cardinality(T) <= MaxPlaceholders + 1} } :
            n \in OfflineLengths }
    \cup {LongPhrase}

\* The state when main enters the mnemonic search with a phrase of P, a chain
\* of F and the balance source m.
Start(P, F, m) ==
    /\ base_words \in P
    /\ funded \in F
    /\ mode = m
    /\ deriveLog = "none"
    /\ pulled = 0
    /\ sleptAfter = << >>
    /\ pc = "next"
    /\ genState = "unstarted"
    /\ genIdx = -1
    /\ mnemonic = << >>
    /\ addrs = << >>
    /\ k = 0
    /\ attempt = 0
    /\ ep = 0
    /\ reqLog = << >>
    /\ delays = << >>
    /\ ret = 0
    /\ exit = "none"
    /\ answeredBy = 0
    /\ total_attempts = 0
    /\ progress = {}
    /\ paused = FALSE
    /\ warned = FALSE
    /\ lengthError = FALSE
    /\ result = "none"
    /\ found = [candidate |-> << >>, address |-> NoAddress, balance |-> 0]
    /\ undetermined = FALSE
    /\ everDerived = FALSE
    /\ everRequested = FALSE

\* The search through the provider APIs (neither --local-node nor --offline).
Init == Start(InputPhrases, SUBSET FundableSpots, "api")

(* ------------------------- generate_mnemonics ------------------------- *)
\* The generator's first resumption: the placeholder warning and the length
\* validation.  On an invalid length the error is logged and the generator
\* returns, which ends the for loop of main.
GenStart ==
    /\ pc = "next"
    /\ genState = "unstarted"
    /\ warned' = (MissingCount(base_words) > WARN_MISSING)
    /\ IF ~LengthOK(Len(base_words))
       THEN /\ lengthError' = TRUE
            /\ genState' = "finished"
            /\ pc' = "loop_end"
       ELSE /\ lengthError' = FALSE
            /\ genState' = "running"
            /\ pc' = "next"
    /\ UNCHANGED << base_words, funded, mode, deriveLog, genIdx, pulled, mnemonic,
                    addrs, k, callVars, mainVars, result, found, ghostVars >>

\* The enumeration (elided in the source, from spec.md 4.1): the next
\* assignment in product order that passes the checksum filter is yielded;
\* when there is none the generator is exhausted and the for loop ends.
GenYield ==
    /\ pc = "next"
    /\ genState = "running"
    /\ LET S == ValidAfter(base_words, genIdx)
       IN  IF S = {}
           THEN /\ genState' = "finished"
                /\ pc' = "loop_end"
                /\ UNCHANGED << genIdx, pulled, mnemonic >>
           ELSE /\ genIdx' = MinOf(S)
                /\ pulled' = pulled + 1
                /\ mnemonic' = Fill(base_words, MinOf(S))
                /\ genState' = "running"
                /\ pc' = "derive"
    /\ UNCHANGED << base_words, funded, mode, deriveLog, addrs, k, callVars, mainVars, warned,
                    lengthError, result, found, ghostVars >>

(* -------------------------- derive_addresses -------------------------- *)
\* The addresses of the current candidate, one per enumerated path, in the
\* order of the loop over range(20) and the four templates.
DerivedAddresses(ord) ==
    [p \in 1 .. Len(AllPaths) |-> <<ord, AllPaths[p]>>]

Derive ==
    /\ pc = "derive"
    /\ addrs' = DerivedAddresses(total_attempts + 1)
    /\ k' = 1
    /\ everDerived' = TRUE
    /\ deriveLog' = "ok"
    /\ pc' = "check"
    /\ UNCHANGED << base_words, funded, mode, genVars, callVars, mainVars, result,
                    found, undetermined, everRequested >>

\* Mutant of DeriveFail: the failure is logged but addresses are produced all
\* the same and go on to be checked.
DeriveFailChecksGarbage ==
    /\ pc = "derive"
    /\ addrs' = DerivedAddresses(total_attempts + 1)
    /\ k' = 1
    /\ everDerived' = TRUE
    /\ deriveLog' = "DerivationError"
    /\ pc' = "check"
    /\ UNCHANGED << base_words, funded, mode, genVars, callVars, mainVars, result,
                    found, undetermined, everRequested >>

\* A derivation that fails (from spec.md 4.2 and 7; the except clause of
\* derive_addresses is elided in the source): the failure is logged, the
\* candidate yields no address, and the loop body goes on to its end.
DeriveFail ==
    /\ pc = "derive"
    /\ addrs' = << >>
    /\ k' = 0
    /\ everDerived' = TRUE
    /\ deriveLog' = "DerivationError"
    /\ pc' = "tail"
    /\ UNCHANGED << base_words, funded, mode, genVars, callVars, mainVars, result,
                    found, undetermined, everRequested >>

\* Offline mode (from spec.md 6: generation only, no network): the derived
\* addresses are not checked.
SkipChecks ==
    /\ pc = "check"
    /\ mode = "offline"
    /\ pc' = "tail"
    /\ UNCHANGED << base_words, funded, mode, deriveLog, genVars, addrs, k, callVars,
                    mainVars, result, found, ghostVars >>

(* -------------------------- check_balance_local ----------------------- *)
\* getreceivedbyaddress(address, 1): the coins the address has received.
LocalReceivedCoins(address) == IF address \in funded THEN 2 ELSE 0

\* What the RPC call can bring: the amount, or an authentication or
\* connectivity error.
RpcOutcomes(address) ==
    { [kind |-> "ok", coins |-> LocalReceivedCoins(address)],
      [kind |-> "auth_error", coins |-> 0],
      [kind |-> "connection_error", coins |-> 0] }

\* The value of the return statement of the except clause.
LOCAL_ERROR_RETURN == 0

\* check_balance_local(address): the value returned for an RPC outcome.
LocalResult(rpc) ==
    IF rpc.kind = "ok" THEN rpc.coins * Pow(10, 8) ELSE LOCAL_ERROR_RETURN

\* main calls check_balance_local(addrs[k]) (--local-node).
CheckLocal ==
    /\ pc = "check"
    /\ mode = "local"
    /\ \E rpc \in RpcOutcomes(addrs[k]) :
          /\ ret' = LocalResult(rpc)
          /\ exit' = IF rpc.kind = "ok" THEN "rpc_ok" ELSE "rpc_error"
          /\ undetermined' = (undetermined \/ rpc.kind # "ok")
    /\ attempt' = 0
    /\ ep' = 0
    /\ reqLog' = << >>
    /\ delays' = << >>
    /\ sleptAfter' = << >>
    /\ answeredBy' = 0
    /\ paused' = FALSE
    /\ pc' = "returned"
    /\ UNCHANGED << base_words, funded, mode, deriveLog, genVars, addrs, k,
                    total_attempts, progress, result, found, everDerived,
                    everRequested >>

(* ----------------------------- check_balance -------------------------- *)
\* main calls check_balance(addrs[k]).
BeginCheck ==
    /\ pc = "check"
    /\ mode = "api"
    /\ attempt' = 0
    /\ ep' = 1
    /\ reqLog' = << >>
    /\ delays' = << >>
    /\ sleptAfter' = << >>
    /\ ret' = 0
    /\ exit' = "none"
    /\ answeredBy' = 0
    /\ paused' = FALSE
    /\ pc' = "call"
    /\ UNCHANGED << base_words, funded, mode, deriveLog, genVars, addrs, k, total_attempts,
                    progress, result, found, ghostVars >>

\* Mutant of Request: the sleep is in a finally clause, so it also follows
\* the request whose response is returned.
RequestSleepsAlways ==
    /\ pc = "call"
    /\ \E resp \in Responses(addrs[k]) :
          LET out == TryEndpoint(API_ENDPOINTS[ep], addrs[k], resp)
              nxt == NextIteration(attempt, ep)
          IN  /\ reqLog' = Append(reqLog, <<attempt, ep>>)
              /\ everRequested' = TRUE
              /\ IF out.tag = "return"
                 THEN /\ ret' = out.value
                      /\ exit' = "success"
                      /\ answeredBy' = ep
                      /\ pc' = "returned"
                      /\ delays' = Append(delays, Backoff(attempt))
                      /\ sleptAfter' = Append(sleptAfter, <<attempt, ep>>)
                      /\ UNCHANGED << attempt, ep, undetermined >>
                 ELSE /\ delays' = IF out.tag = "raise"
                                   THEN Append(delays, Backoff(attempt))
                                   ELSE delays
                      /\ sleptAfter' = IF out.tag = "raise"
                                       THEN Append(sleptAfter, <<attempt, ep>>)
                                       ELSE sleptAfter
                      /\ IF nxt.over
                         THEN /\ ret' = EXHAUSTED_RETURN
                              /\ exit' = "exhausted"
                              /\ undetermined' = TRUE
                              /\ pc' = "returned"
                              /\ UNCHANGED << attempt, ep, answeredBy >>
                         ELSE /\ attempt' = nxt.attempt
                              /\ ep' = nxt.ep
                              /\ pc' = "call"
                              /\ UNCHANGED << ret, exit, answeredBy, undetermined >>
    /\ UNCHANGED << base_words, funded, mode, deriveLog, genVars, addrs, k, mainVars, result,
                    found, everDerived >>

\* One iteration of the inner loop: the request to endpoint ep in pass
\* attempt, the parse of its response, and either the return of the parsed
\* value or the except clause (log, sleep 2 ** attempt); after the last
\* iteration of the last pass the function returns 0.
Request ==
    /\ pc = "call"
    /\ \E resp \in Responses(addrs[k]) :
          LET out == TryEndpoint(API_ENDPOINTS[ep], addrs[k], resp)
              nxt == NextIteration(attempt, ep)
          IN  /\ reqLog' = Append(reqLog, <<attempt, ep>>)
              /\ everRequested' = TRUE
              /\ IF out.tag = "return"
                 THEN /\ ret' = out.value
                      /\ exit' = "success"
                      /\ answeredBy' = ep
                      /\ pc' = "returned"
                      /\ UNCHANGED << attempt, ep, delays, sleptAfter, undetermined >>
                 ELSE /\ delays' = IF out.tag = "raise"
                                   THEN Append(delays, Backoff(attempt))
                                   ELSE delays
                      /\ sleptAfter' = IF out.tag = "raise"
                                       THEN Append(sleptAfter, <<attempt, ep>>)
                                       ELSE sleptAfter
                      /\ IF nxt.over
                         THEN /\ ret' = EXHAUSTED_RETURN
                              /\ exit' = "exhausted"
                              /\ undetermined' = TRUE
                              /\ pc' = "returned"
                              /\ UNCHANGED << attempt, ep, answeredBy >>
                         ELSE /\ attempt' = nxt.attempt
                              /\ ep' = nxt.ep
                              /\ pc' = "call"
                              /\ UNCHANGED << ret, exit, answeredBy, undetermined >>
    /\ UNCHANGED << base_words, funded, mode, deriveLog, genVars, addrs, k, mainVars, result,
                    found, everDerived >>

(* --------------------------------- main ------------------------------- *)
\* Mutant of Decide: a positive balance is reported but the search goes on.
DecideNoHalt ==
    /\ pc = "returned"
    /\ IF ret > 0
       THEN /\ result' = "found"
            /\ found' = [candidate |-> mnemonic, address |-> addrs[k], balance |-> ret]
       ELSE UNCHANGED << result, found >>
    /\ IF k < Len(addrs)
       THEN /\ k' = k + 1
            /\ paused' = TRUE
            /\ pc' = "check"
       ELSE /\ pc' = "tail"
            /\ UNCHANGED << k, paused >>
    /\ UNCHANGED << base_words, funded, mode, deriveLog, genVars, addrs, callVars, total_attempts,
                    progress, ghostVars >>

\* The part of the loop body the source elides (from spec.md 4.4): the
\* search stops and reports on a positive balance, otherwise pauses and goes
\* on to the next address of the candidate, or to the end of the loop body.
Decide ==
    /\ pc = "returned"
    /\ IF ret > 0
       THEN /\ result' = "found"
            /\ found' = [candidate |-> mnemonic, address |-> addrs[k], balance |-> ret]
            /\ pc' = "done"
            /\ UNCHANGED << k, paused >>
       ELSE IF k < Len(addrs)
       THEN /\ k' = k + 1
            /\ paused' = TRUE
            /\ pc' = "check"
            /\ UNCHANGED << result, found >>
       ELSE /\ pc' = "tail"
            /\ UNCHANGED << k, paused, result, found >>
    /\ UNCHANGED << base_words, funded, mode, deriveLog, genVars, addrs, callVars, total_attempts,
                    progress, ghostVars >>

\* Mutant of LoopTail: the progress test reads the counter before the
\* increment.
LoopTailTestsBeforeIncrement ==
    /\ pc = "tail"
    /\ total_attempts' = total_attempts + 1
    /\ progress' = IF total_attempts % PROGRESS_EVERY = 0
                   THEN progress \cup {total_attempts + 1}
                   ELSE progress
    /\ paused' = TRUE
    /\ pc' = "next"
    /\ UNCHANGED << base_words, funded, mode, deriveLog, genVars, addrs, k, callVars, result,
                    found, ghostVars >>

\* Mutant of LoopTail: no sleep at the end of the loop body.
LoopTailNoPause ==
    /\ pc = "tail"
    /\ total_attempts' = total_attempts + 1
    /\ progress' = IF (total_attempts + 1) % PROGRESS_EVERY = 0
                   THEN progress \cup {total_attempts + 1}
                   ELSE progress
    /\ pc' = "next"
    /\ UNCHANGED << base_words, funded, mode, deriveLog, genVars, addrs, k, callVars, paused,
                    result, found, ghostVars >>

\* The end of the loop body: the attempt counter, the progress report and
\* the REQUEST_DELAY sleep.
LoopTail ==
    /\ pc = "tail"
    /\ total_attempts' = total_attempts + 1
    /\ progress' = IF (total_attempts + 1) % PROGRESS_EVERY = 0
                   THEN progress \cup {total_attempts + 1}
                   ELSE progress
    /\ paused' = TRUE
    /\ pc' = "next"
    /\ UNCHANGED << base_words, funded, mode, deriveLog, genVars, addrs, k, callVars, result,
                    found, ghostVars >>

\* The generator is exhausted and nothing was found (from spec.md 4.4).
LoopEnd ==
    /\ pc = "loop_end"
    /\ result' = "exhausted"
    /\ pc' = "done"
    /\ UNCHANGED << base_words, funded, mode, deriveLog, genVars, addrs, k, callVars, mainVars,
                    found, ghostVars >>

Next ==
    \/ GenStart
    \/ GenYield
    \/ Derive
    \/ BeginCheck
    \/ Request
    \/ Decide
    \/ LoopTail
    \/ LoopEnd

Spec == Init /\ [][Next]_vars

\* Generation only (--offline): the generator is pulled to its end and the
\* addresses of every candidate are derived, without any balance check.
OfflineInit == Start(OfflinePhrases, {{}}, "offline")
OfflineNext ==
    \/ GenStart
    \/ GenYield
    \/ Derive
    \/ SkipChecks
    \/ LoopTail
    \/ LoopEnd
OfflineSpec == OfflineInit /\ [][OfflineNext]_vars

\* The search through the local node (--local-node).
LocalInit == Start(InputPhrases, SUBSET FundableSpots, "local")
LocalNext ==
    \/ GenStart
    \/ GenYield
    \/ Derive
    \/ CheckLocal
    \/ Decide
    \/ LoopTail
    \/ LoopEnd
LocalSpec == LocalInit /\ [][LocalNext]_vars

\* The search through the provider APIs when a derivation may fail.
FaultyNext ==
    \/ Next
    \/ DeriveFail
FaultySpec == Init /\ [][FaultyNext]_vars

(* ======================= the claims and their checks ================== *)
\* The valid BIP39 phrase lengths, as the specification states them.
Bip39Lengths == {12, 15, 18, 21, 24}

\* The largest number of requests of one check_balance call.
MaxRequests == MAX_RETRIES * NumEndpoints

\* A check_balance call has returned and main has not yet looked at the value.
Returned == pc = "returned"

(* C1: when every provider request of every pass has failed, check_balance
   returns the "unknown" outcome and never 0: a returned 0 always means that
   some provider answered with a balance of zero.  (Stated as the claim has
   it; the code returns 0 from its final return statement.) *)
C1_ZeroMeansAnsweredZero ==
    (Returned /\ ret = 0) => (exit = "success" /\ answeredBy \in 1 .. NumEndpoints)

(* C2: the search reports Exhausted only if every lookup it made was answered
   by some provider; an address whose lookup ran out of providers and retries
   is not counted as empty.  (Stated as the claim has it.) *)
C2_ExhaustedOnlyIfAllKnown ==
    (result = "exhausted") => ~undetermined

(* C3: once a lookup has returned a positive, known balance the search halts
   at once: the next step reports that address as found, and no further
   address is checked, no further candidate is pulled from the generator and
   no further provider request is issued; after the report nothing happens. *)
C3_HaltsOnFirstPositive ==
    [][ /\ result # "found"
        /\ (Returned /\ exit = "success" /\ ret > 0)
              => /\ pc' = "done"
                 /\ result' = "found"
                 /\ found'.address = addrs[k]
                 /\ UNCHANGED << k, addrs, genIdx, genState, mnemonic, reqLog,
                                 total_attempts >> ]_vars

\* Witness of C3: the search has halted on a funded address while addresses
\* of the candidate and candidates of the enumeration were still unchecked.
C3_Witness ==
    /\ pc = "done"
    /\ result = "found"
    /\ k < Len(addrs)
    /\ ValidAfter(base_words, genIdx) # {}

\* The assignments of the whole enumeration, and the candidate at ordinal o.
Enumerated == IF Len(base_words) \in Bip39Lengths THEN ValidAfter(base_words, -1) ELSE {}
NthCandidate(o) ==
    Fill(base_words,
         CHOOSE n \in Enumerated : Cardinality({m \in Enumerated : m <= n}) = o)

\* The (candidate ordinal, address position) pairs of the enumeration whose
\* address is funded, and the first of them in enumeration order.
FundedPositions ==
    { x \in (1 .. Cardinality(Enumerated)) \X (1 .. Len(AllPaths)) :
          <<x[1], AllPaths[x[2]]>> \in funded }
FirstFunded ==
    CHOOSE x \in FundedPositions :
        \A y \in FundedPositions : x[1] < y[1] \/ (x[1] = y[1] /\ x[2] <= y[2])

\* An upper bound on the number of steps the search can still take: the
\* steps of one check_balance call with its call and its decision, of one
\* candidate, and of the assignments the generator has not yet visited.
StepsPerCall == MaxRequests + 2
StepsPerCandidate == Len(AllPaths) * StepsPerCall + 3
StepsOfRest == (NumCombos(base_words) - 1 - genIdx) * StepsPerCandidate + 2
StepsLeft ==
    CASE pc = "done"     -> 0
      [] pc = "loop_end" -> 1
      [] pc = "next"     -> StepsOfRest + (IF genState = "unstarted" THEN 1 ELSE 0)
      [] pc = "derive"   -> StepsOfRest + StepsPerCandidate - 1
      [] pc = "check"    -> StepsOfRest + 1 + (Len(addrs) - k + 1) * StepsPerCall
      [] pc = "call"     -> StepsOfRest + 1 + (Len(addrs) - k) * StepsPerCall
                               + (MaxRequests - Len(reqLog)) + 1
      [] pc = "returned" -> StepsOfRest + 1 + (Len(addrs) - k) * StepsPerCall + 1
      [] pc = "tail"     -> StepsOfRest + 1

(* C4: if the enumeration holds a candidate one of whose derived addresses is
   funded, the search eventually ends (until it has ended a step is always
   possible, and every step lowers the bound StepsLeft on the steps that
   remain), and, provided every lookup it made was answered by some provider
   within the retry budget, it ends reporting found with the candidate,
   address and balance of the first funded (candidate, address) in
   enumeration order. *)
C4_FindsFirstFunded ==
    /\ [][StepsLeft' < StepsLeft]_vars
    /\ [](StepsLeft >= 0 /\ (pc = "done" \/ ENABLED Next))
    /\ []( (pc = "done" /\ ~undetermined /\ FundedPositions # {}) =>
             /\ result = "found"
             /\ found = [candidate |-> NthCandidate(FirstFunded[1]),
                         address |-> <<FirstFunded[1], AllPaths[FirstFunded[2]]>>,
                         balance |-> ChainBalance(<<FirstFunded[1],
                                                    AllPaths[FirstFunded[2]]>>)] )

\* Witness of C4: two candidates of the enumeration are funded and the first
\* of them was reported after every lookup was answered.
C4_Witness ==
    /\ Cardinality(FundedPositions) >= 2
    /\ pc = "done"
    /\ ~undetermined
    /\ result = "found"
    /\ found.address[1] = 1

(* C5: within every pass of a check_balance call the providers are requested
   in the fixed order of the provider list starting from provider 0, a failed
   request is followed by the request to the next provider of the same pass,
   and a provider failure ends the lookup only when it is the last request of
   the last pass. *)
C5_FixedOrderFailover ==
    /\ \A j \in 1 .. Len(reqLog) :
          reqLog[j] = << (j - 1) \div NumEndpoints, ((j - 1) % NumEndpoints) + 1 >>
    /\ pc = "call" =>
          /\ Len(delays) = Len(reqLog)
          /\ <<attempt, ep>> = << Len(reqLog) \div NumEndpoints,
                                  (Len(reqLog) % NumEndpoints) + 1 >>
    /\ (Returned /\ exit = "exhausted") =>
          reqLog[Len(reqLog)] = <<MAX_RETRIES - 1, NumEndpoints>>

\* Witness of C5: the second pass is under way after the failures of the
\* first pass and of the first provider of the second.
C5_Witness ==
    /\ pc = "call"
    /\ Len(reqLog) = NumEndpoints + 1
    /\ Len(delays) = NumEndpoints + 1
    /\ <<attempt, ep>> = <<1, 2>>

(* C6: every check_balance call ends in exactly one of Success and
   ExhaustedRetries after at most MAX_RETRIES passes over the provider list:
   it issues at most MAX_RETRIES * |providers| = 9 requests, and it ends in
   ExhaustedRetries only after exactly that many failed requests.  (A call
   that has not returned can always make its next request, and each request
   lengthens the request log, which is bounded: the call terminates.) *)
C6_BoundedRequests ==
    /\ MaxRequests = 9
    /\ Len(reqLog) <= MaxRequests
    /\ attempt < MAX_RETRIES
    /\ Returned => exit \in {"success", "exhausted"}
    /\ pc = "call" => (exit = "none" /\ Len(reqLog) < MaxRequests /\ ENABLED Request)
    /\ (Returned /\ exit = "exhausted") =>
          (Len(reqLog) = MaxRequests /\ Len(delays) = MaxRequests)
    /\ (Returned /\ exit = "success") =>
          (Len(delays) = Len(reqLog) - 1 /\ answeredBy = reqLog[Len(reqLog)][2])

\* Witness of C6: a call has ended in ExhaustedRetries.
C6_Witness ==
    /\ Returned
    /\ exit = "exhausted"
    /\ Len(reqLog) = MaxRequests

(* C7: on consecutive provider failures within one check_balance call the
   waits form a strictly increasing sequence: each wait is strictly longer
   than the one before it.  (Stated as the claim has it; the code sleeps
   2 ** attempt after every failure, so the waits of one pass are equal.) *)
C7_StrictlyIncreasingDelays ==
    \A j \in 1 .. (Len(delays) - 1) : delays[j] < delays[j + 1]

(* C8: a successful response in the format of the provider that sent it makes
   check_balance return the balance b of the address it carries, the same
   value whichever of the three providers is the one that answers. *)
C8_SameNormalizedValue ==
    (Returned /\ exit = "success") =>
        /\ ret = ChainBalance(addrs[k])
        /\ answeredBy \in 1 .. NumEndpoints

\* Witness of C8: the third provider (nested data.confirmed format) answered
\* for a funded address after the first two (keyed and flat formats) failed.
C8_Witness ==
    /\ Returned
    /\ exit = "success"
    /\ answeredBy = 3
    /\ ret > 0
    /\ ret = ChainBalance(addrs[k])

(* C9: for a partial phrase whose token count is not in {12,15,18,21,24},
   generate_mnemonics fails with InvalidLengthError; it does not return
   normally with an empty candidate sequence.  (Stated as the claim has it;
   the code logs an error and returns.) *)
C9_InvalidLengthRaises ==
    (Len(base_words) \notin Bip39Lengths /\ genState # "unstarted")
        => genState = "raised"

(* C10: when the partial phrase has an invalid length the search invocation
   ends without a provider request having been issued and without an address
   having been derived. *)
C10_NoTrafficOnInvalidInput ==
    (Len(base_words) \notin Bip39Lengths) =>
        /\ ~everRequested
        /\ ~everDerived
        /\ pc \in {"next", "loop_end", "done"}
        /\ pc = "done" \/ ENABLED Next
        /\ reqLog = << >>
        /\ addrs = << >>

\* Witness of C10: the search of an invalid phrase has ended.
C10_Witness ==
    /\ Len(base_words) \notin Bip39Lengths
    /\ lengthError
    /\ pc = "done"

(* C11: for a valid partial phrase of length L with k placeholders, every
   candidate the generator emits has length L, agrees with the partial phrase
   at every position that is not a placeholder, has a wordlist word at every
   placeholder position and satisfies the checksum predicate; at most
   wordlist_size^k candidates are emitted. *)
C11_ValidCandidates ==
    (mnemonic # << >>) =>
        /\ Len(base_words) \in Bip39Lengths
        /\ Len(mnemonic) = Len(base_words)
        /\ \A i \in 1 .. Len(base_words) :
              IF base_words[i] = Placeholder
              THEN mnemonic[i] \in Wordlist
              ELSE mnemonic[i] = base_words[i]
        /\ ChecksumOK(mnemonic)
        /\ pulled >= 1
        /\ pulled <= Pow(WordlistSize, MissingCount(base_words))

\* The second or a later candidate of a phrase with two placeholders has
\* just been emitted.
C11_Witness ==
    /\ pc = "derive"
    /\ MissingCount(base_words) = 2
    /\ pulled >= 2

\* The order of the Cartesian product, stated on the phrases themselves: with
\* the placeholders taken left to right and the words in wordlist order, the
\* completions of a phrase come in lexicographic order of their word indices.
PlaceholderPositions(words) == {i \in 1 .. Len(words) : words[i] = Placeholder}
Completions(words) ==
    { [i \in 1 .. Len(words) |-> IF words[i] = Placeholder THEN f[i] ELSE words[i]] :
        f \in [PlaceholderPositions(words) -> Wordlist] }
LexLess(a, b) ==
    \E i \in 1 .. Len(a) : a[i] < b[i] /\ \A j \in 1 .. (i - 1) : a[j] = b[j]
\* a comes before b in the enumeration; << >> stands for "no candidate yet".
Before(a, b) == a = << >> \/ LexLess(a, b)

(* C12: the enumeration order is a function of the partial phrase and the
   wordlist only.  Each emitted candidate is the next completion, in product
   order, that passes the checksum filter: it comes strictly after the
   candidate before it (so none is emitted twice), no valid completion lies
   between the two, and the generator ends only when no valid completion is
   left after the last candidate. *)
C12_ProductOrder ==
    [][ /\ (pulled' # pulled) =>
             /\ pulled' = pulled + 1
             /\ mnemonic' \in Completions(base_words)
             /\ Before(mnemonic, mnemonic')
             /\ \A c \in Completions(base_words) :
                   ~(ChecksumOK(c) /\ Before(mnemonic, c) /\ LexLess(c, mnemonic'))
        /\ (genState = "running" /\ genState' = "finished") =>
             \A c \in Completions(base_words) :
                 ~(ChecksumOK(c) /\ Before(mnemonic, c))
      ]_vars

\* A candidate in which the leftmost of two placeholders has moved on to the
\* second word: the rightmost placeholder has gone through the wordlist.
C12_Witness ==
    /\ pc = "derive"
    /\ MissingCount(base_words) = 2
    /\ pulled >= 3
    /\ \E i \in PlaceholderPositions(base_words) :
          Rank(base_words, i) = 1 /\ mnemonic[i] = 2

(* C13: a derivation failure is fatal to its candidate only.  While the last
   derivation is the failed one, the failure is logged, the candidate has no
   address, no balance check is under way, nothing was reported found, the
   search has ended only if the generator is exhausted, and otherwise it can
   take its next step towards the next candidate. *)
C13_DerivationFailureSkipsCandidate ==
    (deriveLog = "DerivationError") =>
        /\ addrs = << >>
        /\ pc \in {"tail", "next", "derive", "loop_end", "done"}
        /\ result # "found"
        /\ (pc = "done") => (result = "exhausted" /\ genState = "finished")
        /\ (pc = "done") \/ ENABLED FaultyNext

\* The derivation of the first candidate failed and the second candidate has
\* been pulled from the generator.
C13_Witness ==
    /\ deriveLog = "DerivationError"
    /\ pc = "derive"
    /\ pulled = 2
    /\ total_attempts = 1

(* C14: between any two consecutive balance checks of the search, of the same
   candidate or of successive candidates, a REQUEST_DELAY pause occurs: when
   a check is about to start and a check was made before, a pause has
   happened since that check started. *)
C14_PauseBetweenChecks ==
    (pc = "check" /\ everRequested) => paused

\* The first check of the second candidate is about to start, after the
\* checks of the first candidate and the pause at the end of the loop body.
C14_Witness ==
    /\ pc = "check"
    /\ k = 1
    /\ total_attempts >= 1
    /\ everRequested
    /\ paused

(* C15: for a valid partial phrase the search ends (a step is possible until
   it has ended and every step lowers the bound StepsLeft); when it ends
   without a positive balance, as it does when no address of the enumeration
   is funded, the generator is exhausted, the outcome is Exhausted and not an
   error, and every candidate of the enumeration was pulled once. *)
C15_ExhaustedIsNormalOutcome ==
    /\ [][(Len(base_words) \in Bip39Lengths) => (StepsLeft' < StepsLeft)]_vars
    /\ []( (Len(base_words) \in Bip39Lengths) =>
             /\ (pc = "done") \/ ENABLED Next
             /\ (pc = "done" /\ FundedPositions = {}) => (result # "found")
             /\ (pc = "done" /\ result # "found") =>
                   /\ result = "exhausted"
                   /\ genState = "finished"
                   /\ ~lengthError
                   /\ pulled = Cardinality(Enumerated)
                   /\ total_attempts = pulled )

\* A search over an enumeration of at least two candidates, none funded, has
\* ended with Exhausted.
C15_Witness ==
    /\ pc = "done"
    /\ Len(base_words) \in Bip39Lengths
    /\ FundedPositions = {}
    /\ result = "exhausted"
    /\ pulled >= 2

(* C16: when the RPC call of check_balance_local fails (authentication or
   connectivity error), the function returns a result that can be told from a
   balance of zero: it never returns 0 for a failed lookup.  (Stated as the
   claim has it; the except clause of the code returns 0.) *)
C16_RpcFailureNotZero ==
    (Returned /\ exit = "rpc_error") => (ret # 0)

(* C17: backoff is placed between retry passes only: within a check_balance
   call every backoff wait follows the last request of a pass that is not the
   final pass; none follows a request to a provider that has a successor in
   its pass, and none follows the last failed request of the final pass.
   (Stated as the claim has it; the code sleeps in the except clause of the
   inner loop, after every failed request.) *)
C17_BackoffBetweenPassesOnly ==
    \A j \in 1 .. Len(sleptAfter) :
        /\ sleptAfter[j][2] = NumEndpoints
        /\ sleptAfter[j][1] < MAX_RETRIES - 1

(* C18: for every candidate the 4 path templates times the indices 0..19
   enumerated by derive_addresses are 80 pairwise distinct derivation paths,
   so no path, and no address, is produced or checked twice for a candidate.
   (Stated as the claim has it; at index 0 the first and the fourth template
   of the code are the same path.) *)
C18_PathsPairwiseDistinct ==
    (pc = "check" /\ k = 1) =>
        /\ Len(addrs) = 4 * NUM_INDICES
        /\ \A p, q \in 1 .. Len(addrs) : (p # q) => (addrs[p] # addrs[q])

(* C19: check_balance returns the value parsed from the first successful
   response in pass-major, priority order: when it returns with success, the
   requests were made in that order, every request before the last one failed
   and was followed by its backoff wait, the last one is the request that was
   answered and its parsed balance is the returned value; the answered request
   is followed by no backoff wait and, once the call has returned, by no
   further request of that call. *)
C19_FirstSuccessReturned ==
    /\ []( (Returned /\ exit = "success") =>
             /\ Len(reqLog) >= 1
             /\ \A j \in 1 .. Len(reqLog) :
                   reqLog[j] = << (j - 1) \div NumEndpoints, ((j - 1) % NumEndpoints) + 1 >>
             /\ answeredBy = reqLog[Len(reqLog)][2]
             /\ sleptAfter = SubSeq(reqLog, 1, Len(reqLog) - 1)
             /\ Len(delays) = Len(reqLog) - 1
             /\ ret = ChainBalance(addrs[k]) )
    /\ [][ (Returned /\ exit = "success") =>
             (reqLog' = reqLog /\ delays' = delays /\ sleptAfter' = sleptAfter) ]_vars

\* The third provider answered in the second pass after the five requests
\* before it had failed.
C19_Witness ==
    /\ Returned
    /\ exit = "success"
    /\ answeredBy = NumEndpoints
    /\ Len(reqLog) = 2 * NumEndpoints
    /\ Len(delays) = 2 * NumEndpoints - 1

(* C20: in the mnemonic search loop the attempt counter is incremented once
   per candidate, so that whenever the loop is about to pull from the
   generator, or has ended by exhaustion, it equals the number of candidates
   pulled (inside the loop body the current candidate is not yet counted);
   a progress signal was emitted exactly for the values of the counter that
   are positive multiples of 100. *)
C20_CounterAndProgress ==
    /\ total_attempts =
          IF pc \in {"next", "loop_end", "done"} THEN pulled ELSE pulled - 1
    /\ progress = {n \in 1 .. total_attempts : n % 100 = 0}

\* More than 100 candidates were pulled and the only progress signal so far
\* is the one at 100.
C20_Witness ==
    /\ total_attempts > 100
    /\ pulled = total_attempts
    /\ progress = {100}

====
